---- MODULE Spec2Model ----
(***************************************************************************)
(* Model of the resource-reporting agent of worker_mobile.py: the snapshot *)
(* builder get_resource_info with its collectors, and the session loop     *)
(* worker_loop (connect, register, heartbeat, reconnect with backoff).     *)
(*                                                                         *)
(* Times are integers.  Wait and sleep times inside a connection are in    *)
(* seconds.  reconnect_delay is a Python float that takes the values       *)
(* 5 * 1.5^k; it is held exactly as a count of 1/Scale seconds.            *)
(***************************************************************************)
EXTENDS Integers, Sequences, FiniteSets, TLC

\* ------------------------------------------------------------------ bounds
\* Most messages the coordinator has in flight on one connection.
MaxInbox == 2
\* Most heartbeats one connection carries before the transport fails.
MaxHeartbeats == 2
\* Where the history counters of failures and sleeps saturate.
MaxRun == 9
\* The latest clock reading at which the snapshot builder is called.
MaxClock == 3

\* ------------------------------------------------------- program constants
\* reconnect_delay = 5 (lines 356 and 401)
BASE_RECONNECT_DELAY == 5
\* max_reconnect_delay = 60 (line 357)
max_reconnect_delay == 60
\* asyncio.wait_for(websocket.recv(), timeout=5.0) (lines 393 and 431)
RECV_TIMEOUT == 5
\* await asyncio.sleep(5) (line 438)
HEARTBEAT_SLEEP == 5

\* reconnect_delay * 1.5 stays a multiple of 1/128 s up to the cap of 60 s
\* (5, 7.5, 11.25, ..., 56.953125), so 1/128 s units hold every value exactly.
Scale == 2 ^ 7

Min(a, b) == IF a <= b THEN a ELSE b

\* DEVICE_ID = str(uuid.uuid4())[:8]: one fixed token per process.
DEVICE_ID == "dev-0001"

VARIABLES
    pc,               \* position of worker_loop
    reconnect_delay,  \* the local of worker_loop, in 1/Scale seconds
    heartbeat_count,  \* the local of worker_loop
    connOpen,         \* the `async with websockets.connect(...)` block is entered
    inbox,            \* payloads the coordinator sent that recv() has not returned
    waitElapsed,      \* seconds the running wait_for(recv) of line 431 has waited
    platform,         \* what the device's probes answer (fixed per run)
    info,             \* the local `info`: the snapshot last built
    misconfigured,    \* the transport can never be constructed (fixed per run)
    sent,             \* history: types of the messages sent on the last connection opened
    regOutcome,       \* history: how the registration wait of that connection ended
    wire,             \* history: the last message given to websocket.send on it
    sinceHb,          \* history: seconds since the last heartbeat send
    ev,               \* history: what the last step of the agent did
    sleptBefore,      \* history: at the connect call, the backoff sleep just made (else 0)
    failRun,          \* history: transport failures since the last completed registration
    sleepsSinceReset  \* history: backoff sleeps since reconnect_delay was last set to 5

vars == <<pc, reconnect_delay, heartbeat_count, connOpen, inbox, waitElapsed,
          platform, info, misconfigured, sent, regOutcome, wire, sinceHb, ev,
          sleptBefore, failRun, sleepsSinceReset>>

\* ------------------------------------------------------- metric collectors
\* A probe's outcome is a sequence: <<>> when it raised, <<v>> when it gave v.
Failed == << >>
Got(v) == <<v>>
Succeeded(o) == Len(o) > 0
Val(o) == o[1]

\* A Python dict is a function from its keys; {} is the function of no key.
EmptyDict == << >>
Merge(f, g) == [k \in (DOMAIN f) \cup (DOMAIN g) |-> IF k \in DOMAIN g THEN g[k] ELSE f[k]]

\* round(num / den * 100, 2) in hundredths of a percent, den > 0.
RoundPercent(num, den) == (2 * num * 10000 + den) \div (2 * den)

\* get_android_memory_info: the integer fields of /proc/meminfo, {} when
\* the file cannot be read.
get_android_memory_info(p) == IF Succeeded(p.proc_meminfo) THEN Val(p.proc_meminfo) ELSE EmptyDict

\* The second method of get_cpu_free, from two samples of the `cpu ` line.
SumSeq(s) == IF Len(s) >= 7 THEN s[1] + s[2] + s[3] + s[4] + s[5] + s[6] + s[7] ELSE 0
cpu_from_proc_stat(p) ==
    IF ~Succeeded(p.proc_stat1) THEN 5000
    ELSE IF ~Succeeded(p.proc_stat2) THEN 5000
    ELSE LET times1 == Val(p.proc_stat1)
             times2 == Val(p.proc_stat2)
         IN  IF Len(times1) < 5 \/ Len(times2) < 5 THEN 5000   \* IndexError, line 88
             ELSE LET total_delta == SumSeq(times2) - SumSeq(times1)
                      idle_delta == (times2[4] + times2[5]) - (times1[4] + times1[5])
                  IN  IF total_delta > 0
                      THEN RoundPercent(idle_delta, total_delta)
                      ELSE 5000

\* get_cpu_free, in hundredths of a percent (50.0 is 5000).
get_cpu_free(p) ==
    IF Succeeded(p.cpu_percent) THEN 10000 - Val(p.cpu_percent)
    ELSE cpu_from_proc_stat(p)

DictGet(d, k, default) == IF k \in DOMAIN d THEN d[k] ELSE default

\* Mutant: psutil.virtual_memory asked first, /proc/meminfo after it.
get_ram_free_mb_psutil_first(p) ==
    LET meminfo == get_android_memory_info(p) IN
    IF Succeeded(p.virtual_memory) THEN Val(p.virtual_memory)
    ELSE IF "MemAvailable" \in DOMAIN meminfo
         THEN meminfo["MemAvailable"] \div 1024
         ELSE (DictGet(meminfo, "MemFree", 0) + DictGet(meminfo, "Cached", 0)
               + DictGet(meminfo, "Buffers", 0)) \div 1024

\* get_ram_free_mb
get_ram_free_mb(p) ==
    LET meminfo == get_android_memory_info(p) IN
    IF meminfo = EmptyDict
    THEN IF Succeeded(p.virtual_memory) THEN Val(p.virtual_memory) ELSE 0
    ELSE IF "MemAvailable" \in DOMAIN meminfo
         THEN meminfo["MemAvailable"] \div 1024
         ELSE (DictGet(meminfo, "MemFree", 0) + DictGet(meminfo, "Cached", 0)
               + DictGet(meminfo, "Buffers", 0)) \div 1024

\* Method 2 of get_battery_info: the parsed `dumpsys battery` output.
battery_from_dumpsys(d) ==
    [percentage |-> Val(d.level),
     status |-> IF d.plugged > 0 THEN "charging"
                ELSE IF d.status = "2" THEN "charging"
                ELSE IF d.status = "5" THEN "full"
                ELSE "discharging",
     source |-> "dumpsys"]

\* get_battery_info
get_battery_info(p) ==
    IF Succeeded(p.termux_battery)
       /\ {"percentage", "status"} \subseteq DOMAIN Val(p.termux_battery)
    THEN Val(p.termux_battery)
    ELSE IF Succeeded(p.dumpsys_battery) /\ Succeeded(Val(p.dumpsys_battery).level)
    THEN battery_from_dumpsys(Val(p.dumpsys_battery))
    ELSE IF Succeeded(p.sysfs_battery)
    THEN [percentage |-> Val(p.sysfs_battery).capacity,
          status |-> Val(p.sysfs_battery).status,
          source |-> "sysfs"]
    ELSE IF p.charger_online
    THEN [percentage |-> 100, status |-> "charging", source |-> "charging_detect"]
    ELSE [percentage |-> 100, status |-> "unknown", error |-> "battery status unavailable"]

\* Mutant: the psutil fallback of lines 260-267 left out.
get_storage_info_no_fallback(p) ==
    IF Succeeded(p.df_data)
    THEN [total_gb |-> Val(p.df_data).size, free_gb |-> Val(p.df_data).avail,
          used_percent |-> Val(p.df_data).pcent * 100]
    ELSE [total_gb |-> 12800, free_gb |-> 6400, used_percent |-> 5000]

\* get_storage_info; sizes in hundredths of a GB, percent in hundredths.
get_storage_info(p) ==
    IF Succeeded(p.df_data)
    THEN [total_gb |-> Val(p.df_data).size, free_gb |-> Val(p.df_data).avail,
          used_percent |-> Val(p.df_data).pcent * 100]
    ELSE IF Succeeded(p.disk_usage) /\ Val(p.disk_usage).total > 0
    THEN [total_gb |-> Val(p.disk_usage).total, free_gb |-> Val(p.disk_usage).free,
          used_percent |-> RoundPercent(Val(p.disk_usage).used, Val(p.disk_usage).total)]
    ELSE [total_gb |-> 12800, free_gb |-> 6400, used_percent |-> 5000]

\* Mutant: the handler of lines 279-280 reports a connection as well.
get_network_info_always_connected(p) == [connected |-> TRUE]

\* get_network_info
get_network_info(p) == [connected |-> p.probe_connects]

\* One getprop call of get_device_info: the key is set from stdout on return
\* code 0, left unset on another return code, and set to `onRaise` (when
\* there is one) if the call raises.
getprop(key, outcome, onRaise) ==
    IF outcome = "raises" THEN (IF Succeeded(onRaise) THEN (key :> Val(onRaise)) ELSE EmptyDict)
    ELSE IF outcome = "nonzero" THEN EmptyDict
    ELSE (key :> outcome)

\* get_device_info
get_device_info(p) ==
    LET meminfo == get_android_memory_info(p)
        base == [platform |-> "android",
                 cpu_count |-> IF Succeeded(p.cpu_count) THEN Val(p.cpu_count) ELSE 8,
                 device_id |-> DEVICE_ID,
                 total_ram_mb |-> IF "MemTotal" \in DOMAIN meminfo
                                  THEN meminfo["MemTotal"] \div 1024
                                  ELSE 8192]
    IN  Merge(Merge(base, getprop("android_version", p.getprop_release, Got("unknown"))),
              getprop("model", p.getprop_model, Failed))

\* ------------------------------------------------------- snapshot builder
\* get_resource_info
get_resource_info(p) ==
    LET cpu_free == get_cpu_free(p)
        ram_free_mb == get_ram_free_mb(p)
        device_info == get_device_info(p)
        total_ram_mb == DictGet(device_info, "total_ram_mb", 8192)
    IN  [cpu_free |-> cpu_free,
         ram_free_mb |-> ram_free_mb,
         ram_used_percent |-> IF total_ram_mb > 0
                              THEN RoundPercent(total_ram_mb - ram_free_mb, total_ram_mb)
                              ELSE 0,
         total_ram_mb |-> total_ram_mb,
         battery |-> get_battery_info(p),
         storage |-> get_storage_info(p),
         network |-> get_network_info(p),
         device |-> device_info,
         timestamp |-> p.clock]

\* The device states the model samples: every probe failing, and a phone
\* on which the first strategy of every collector succeeds.
AllProbesFail ==
    [cpu_percent |-> Failed, proc_stat1 |-> Failed, proc_stat2 |-> Failed,
     proc_meminfo |-> Failed, virtual_memory |-> Failed,
     termux_battery |-> Failed, dumpsys_battery |-> Failed, sysfs_battery |-> Failed,
     charger_online |-> FALSE, df_data |-> Failed, disk_usage |-> Failed,
     probe_connects |-> FALSE, cpu_count |-> Failed,
     getprop_release |-> "raises", getprop_model |-> "raises", clock |-> 1]

Phone ==
    [cpu_percent |-> Got(2550), proc_stat1 |-> Got(<<10, 0, 10, 70, 10, 0, 0>>),
     proc_stat2 |-> Got(<<20, 0, 20, 140, 20, 0, 0>>),
     proc_meminfo |-> Got([MemTotal |-> 4194304, MemAvailable |-> 1048576,
                           MemFree |-> 524288, Cached |-> 262144, Buffers |-> 131072]),
     virtual_memory |-> Got(1000),
     termux_battery |-> Got([percentage |-> 80, status |-> "DISCHARGING", plugged |-> "UNPLUGGED"]),
     dumpsys_battery |-> Got([level |-> Got(80), status |-> "3", plugged |-> 0]),
     sysfs_battery |-> Got([capacity |-> 80, status |-> "discharging"]),
     charger_online |-> FALSE,
     df_data |-> Got([size |-> 6400, avail |-> 1600, pcent |-> 75]),
     disk_usage |-> Got([total |-> 6400, free |-> 1600, used |-> 4800]),
     probe_connects |-> TRUE, cpu_count |-> Got(4),
     getprop_release |-> "13", getprop_model |-> "Pixel", clock |-> 2]

Platforms == {AllProbesFail, Phone}

\* What each probe of a device may answer.  /proc/meminfo, in kB: unreadable,
\* readable without an integer line, a current kernel, an old kernel without
\* MemAvailable, MemTotal alone, no MemTotal, and a MemTotal of 0.
MeminfoOutcomes ==
    {Failed, Got(EmptyDict), Phone.proc_meminfo,
     Got([MemTotal |-> 4194304, MemFree |-> 524288, Cached |-> 262144, Buffers |-> 131072]),
     Got([MemTotal |-> 4194304]),
     Got([MemAvailable |-> 1048576]),
     Got([MemTotal |-> 0, MemAvailable |-> 0])}
\* psutil.virtual_memory().available in MB.
VirtualMemoryOutcomes == {Failed, Got(1000), Got(16000)}
\* psutil.cpu_percent in hundredths, and the `cpu ` line of /proc/stat.
CpuPercentOutcomes == {Failed, Got(2550)}
ProcStat1Outcomes == {Failed, Phone.proc_stat1}
ProcStat2Outcomes == {Failed, Phone.proc_stat2, Phone.proc_stat1, Got(<<20, 0>>)}
\* The JSON object termux-battery-status prints, with and without the two keys.
TermuxOutcomes == {Failed, Phone.termux_battery, Got([health |-> "GOOD"])}
\* `dumpsys battery`: Failed stands for a failing call and for a `plugged:`
\* line that int() rejects (line 158), which leaves method 2 the same way.
DumpsysOutcomes ==
    {Failed, Phone.dumpsys_battery,
     Got([level |-> Failed, status |-> "2", plugged |-> 0]),
     Got([level |-> Got(55), status |-> "2", plugged |-> 0]),
     Got([level |-> Got(100), status |-> "5", plugged |-> 0]),
     Got([level |-> Got(60), status |-> "3", plugged |-> 1])}
\* The capacity and status files of the first battery directory of sysfs.
SysfsOutcomes == {Failed, Phone.sysfs_battery, Got([capacity |-> 95, status |-> "not charging"])}
DfOutcomes == {Failed, Phone.df_data}
DiskUsageOutcomes == {Failed, Phone.disk_usage, Got([total |-> 0, free |-> 0, used |-> 0])}
GetpropOutcomes(text) == {"raises", "nonzero", text}

\* The devices the snapshot builder is tried on: from a device on which
\* every probe fails and from one on which every probe answers, the probes
\* of one collector at a time take every outcome above.
ProbeSpaceFrom(b) ==
    {[b EXCEPT !.proc_meminfo = m, !.virtual_memory = v] :
        m \in MeminfoOutcomes, v \in VirtualMemoryOutcomes}
    \cup {[b EXCEPT !.cpu_percent = c, !.proc_stat1 = s1, !.proc_stat2 = s2] :
        c \in CpuPercentOutcomes, s1 \in ProcStat1Outcomes, s2 \in ProcStat2Outcomes}
    \cup {[b EXCEPT !.termux_battery = t, !.dumpsys_battery = d, !.sysfs_battery = y,
                    !.charger_online = o] :
        t \in TermuxOutcomes, d \in DumpsysOutcomes, y \in SysfsOutcomes, o \in BOOLEAN}
    \cup {[b EXCEPT !.df_data = f, !.disk_usage = u, !.probe_connects = n] :
        f \in DfOutcomes, u \in DiskUsageOutcomes, n \in BOOLEAN}
    \cup {[b EXCEPT !.cpu_count = c, !.getprop_release = r, !.getprop_model = m] :
        c \in {Failed, Phone.cpu_count}, r \in GetpropOutcomes(Phone.getprop_release),
        m \in GetpropOutcomes(Phone.getprop_model)}

ProbeSpace == ProbeSpaceFrom([AllProbesFail EXCEPT !.clock = 1])
              \cup ProbeSpaceFrom([Phone EXCEPT !.clock = 1])

\* ------------------------------------------------------- inbound payloads
\* The texts the coordinator may put on the wire: the three protocol
\* messages, an object of unknown type, a JSON value that is no object, and
\* a text that is no JSON.
Payloads == {"{\"type\": \"registration_ack\"}", "{\"type\": \"heartbeat_ack\"}",
             "{\"type\": \"ping\"}", "{\"type\": \"status\"}", "[1, 2]", "not json"}

\* json.loads(response): <<>> when it raises JSONDecodeError, else the value
\* decoded, tagged with its Python class.
json_loads(text) ==
    CASE text = "{\"type\": \"registration_ack\"}" -> Got([class |-> "dict", type |-> "registration_ack"])
      [] text = "{\"type\": \"heartbeat_ack\"}" -> Got([class |-> "dict", type |-> "heartbeat_ack"])
      [] text = "{\"type\": \"ping\"}" -> Got([class |-> "dict", type |-> "ping"])
      [] text = "{\"type\": \"status\"}" -> Got([class |-> "dict", type |-> "status"])
      [] text = "[1, 2]" -> Got([class |-> "list", type |-> ""])
      [] OTHER -> Failed

\* Only a dict has .get: lines 395 and 433 raise AttributeError on the rest.
IsDict(v) == v.class = "dict"

\* What lines 393-395 (and 431-433) raise on a received text: "" when
\* nothing is raised.
handle_response(text) ==
    LET response_data == json_loads(text) IN
    IF ~Succeeded(response_data) THEN "JSONDecodeError"
    ELSE IF ~IsDict(Val(response_data)) THEN "AttributeError"
    ELSE ""

\* ------------------------------------------------------- exceptions
\* The classes that `except Exception` catches; KeyboardInterrupt and
\* asyncio.CancelledError derive from BaseException and pass through.
ExceptionClasses == {"ConnectionClosed", "OSError", "InvalidURI",
                     "JSONDecodeError", "AttributeError", "TimeoutError"}
\* A failure of the transport itself (connect, send, receive).
TransportErrors == {"ConnectionClosed", "OSError", "InvalidURI"}
IsException(exc) == exc \in ExceptionClasses

\* ------------------------------------------------------- messages
\* register_msg (lines 372-383) and heartbeat_msg (lines 408-419)
build_msg(type, snapshot) ==
    [type |-> type,
     device_id |-> DEVICE_ID,
     cpu_free |-> snapshot.cpu_free,
     ram_free_mb |-> snapshot.ram_free_mb,
     ram_used_percent |-> snapshot.ram_used_percent,
     total_ram_mb |-> snapshot.total_ram_mb,
     battery |-> snapshot.battery,
     storage |-> snapshot.storage,
     network |-> snapshot.network,
     device |-> snapshot.device]

NoMsg == [type |-> "none"]

\* `info` before the first call of get_resource_info.
NoInfo == << >>

\* The snapshot each device of a session builds, and the message of each
\* type it sends (tables of get_resource_info and build_msg, so that they
\* are computed once).
SnapshotOf == [p \in Platforms |-> get_resource_info(p)]
MessageOf == [type \in {"register", "heartbeat"} |->
                [p \in Platforms |-> build_msg(type, SnapshotOf[p])]]

\* ------------------------------------------------------- history records
NoText == ""
\* `amount` is a time: for a heartbeat sent, the seconds since the heartbeat
\* before it; for the end of a registration wait, reconnect_delay as it was
\* before line 401; for a backoff sleep, the time slept.
Event(kind, at, text, exc, amount) ==
    [kind |-> kind, at |-> at, text |-> text, exc |-> exc, amount |-> amount]
Bump(n) == Min(n + 1, MaxRun)

\* ------------------------------------------------------- the session loop
UnitsOf(seconds) == seconds * Scale

\* Mutant: the delay doubles (reconnect_delay * 2 in line 448).
next_reconnect_delay_doubling(d) == Min(d * 2, UnitsOf(max_reconnect_delay))

\* Mutant: line 448 without the cap (reconnect_delay * 1.5 alone).
next_reconnect_delay_uncapped(d) == (d * 3) \div 2

\* reconnect_delay = min(reconnect_delay * 1.5, max_reconnect_delay), line 448
next_reconnect_delay(d) == Min((d * 3) \div 2, UnitsOf(max_reconnect_delay))

\* Mutant: line 401 left out.
delay_not_reset(d) == d

\* reconnect_delay = 5 after the registration wait, line 401
delay_after_registration(d) == UnitsOf(BASE_RECONNECT_DELAY)

\* Mutant: `except websockets.ConnectionClosed` in place of line 444.
outer_except_narrow(exc) == IF exc = "ConnectionClosed" THEN "backoff" ELSE "stopped"

\* `except Exception` of the outer try, line 444: where the loop goes when
\* `exc` leaves the `async with` block or the connect call.
outer_except(exc) == IF IsException(exc) THEN "backoff" ELSE "stopped"

\* `except Exception: break` of the heartbeat loop, lines 440-442: the break
\* leaves the `async with` block without an exception, and `while True`
\* (line 359) goes straight back to the connect call.
heartbeat_except(exc) == IF IsException(exc) THEN "connecting" ELSE outer_except(exc)

\* Mutant: the inner try of lines 392-398 left out.
registration_wait_catches_nothing(exc) == FALSE

\* `except asyncio.TimeoutError` of the registration wait, lines 397-398:
\* whether the inner try catches `exc`; the loop then goes on to line 401.
registration_wait_catches(exc) == exc = "TimeoutError"

\* Mutant: the inner try of lines 430-436 left out.
heartbeat_wait_catches_nothing(exc) == FALSE

\* `except asyncio.TimeoutError` of the heartbeat wait, lines 435-436.
heartbeat_wait_catches(exc) == exc = "TimeoutError"

Connected == {"register", "reg_wait", "hb_send", "hb_wait", "hb_sleep"}
Streaming == {"hb_send", "hb_wait", "hb_sleep"}
Waiting == {"reg_wait", "hb_wait"}

Init ==
    /\ pc = "connecting"
    /\ reconnect_delay = UnitsOf(BASE_RECONNECT_DELAY)
    /\ heartbeat_count = 0
    /\ connOpen = FALSE
    /\ inbox = << >>
    /\ waitElapsed = 0
    /\ platform \in Platforms
    /\ info = NoInfo
    /\ misconfigured \in BOOLEAN
    /\ sent = << >>
    /\ regOutcome = ""
    /\ wire = NoMsg
    /\ sinceHb = 0
    /\ ev = Event("start", "", NoText, "", 0)
    /\ sleptBefore = 0
    /\ failRun = 0
    /\ sleepsSinceReset = 0

\* The process has ended: its locals are gone and the history is closed.
Stop(at, exc) ==
    /\ pc' = "stopped"
    /\ reconnect_delay' = UnitsOf(BASE_RECONNECT_DELAY)
    /\ heartbeat_count' = 0
    /\ connOpen' = FALSE
    /\ inbox' = << >>
    /\ waitElapsed' = 0
    /\ info' = NoInfo
    /\ sent' = << >>
    /\ regOutcome' = ""
    /\ wire' = NoMsg
    /\ sinceHb' = 0
    /\ ev' = Event("raise", at, NoText, exc, 0)
    /\ sleptBefore' = 0
    /\ failRun' = 0
    /\ sleepsSinceReset' = 0
    /\ UNCHANGED <<platform, misconfigured>>

\* `exc` is raised at `at` outside the heartbeat loop's try: the `async with`
\* block closes the connection and the outer handler takes over.
RaiseOuter(at, text, exc) ==
    IF outer_except(exc) = "stopped" THEN Stop(at, exc)
    ELSE /\ pc' = outer_except(exc)
         /\ connOpen' = FALSE
         /\ inbox' = << >>
         /\ waitElapsed' = 0
         /\ sinceHb' = 0
         /\ ev' = Event("raise", at, text, exc, 0)
         /\ failRun' = IF exc \in TransportErrors THEN Bump(failRun) ELSE failRun
         /\ sleptBefore' = 0
         /\ UNCHANGED <<reconnect_delay, heartbeat_count, platform, info, misconfigured,
                        sent, regOutcome, wire, sleepsSinceReset>>

\* `exc` is raised at `at` inside the heartbeat loop's try.
RaiseInHeartbeat(at, text, exc) ==
    IF heartbeat_except(exc) = "stopped" THEN Stop(at, exc)
    ELSE /\ pc' = heartbeat_except(exc)
         /\ connOpen' = FALSE
         /\ inbox' = << >>
         /\ waitElapsed' = 0
         /\ sinceHb' = 0
         /\ ev' = Event("raise", at, text, exc, 0)
         /\ failRun' = IF exc \in TransportErrors THEN Bump(failRun) ELSE failRun
         /\ sleptBefore' = 0
         /\ UNCHANGED <<reconnect_delay, heartbeat_count, platform, info, misconfigured,
                        sent, regOutcome, wire, sleepsSinceReset>>

\* websockets.connect succeeds, lines 363-368.
ConnectOk ==
    /\ pc = "connecting"
    /\ ~misconfigured
    /\ pc' = "register"
    /\ connOpen' = TRUE
    /\ inbox' = << >>
    /\ sent' = << >>
    /\ regOutcome' = ""
    /\ wire' = NoMsg
    /\ ev' = Event("connected", "connecting", NoText, "", 0)
    /\ sleptBefore' = 0
    /\ UNCHANGED <<reconnect_delay, heartbeat_count, waitElapsed, platform, info, misconfigured,
                   sinceHb, failRun, sleepsSinceReset>>

\* websockets.connect raises: the network refuses (OSError), or the
\* transport cannot be built at all (InvalidURI).
ConnectFail ==
    /\ pc = "connecting"
    /\ \E exc \in (IF misconfigured THEN {"InvalidURI"} ELSE {"OSError"}) :
          RaiseOuter("connecting", NoText, exc)

\* Lines 371-384: build the snapshot and send the register message.
RegisterSend ==
    /\ pc = "register"
    /\ pc' = "reg_wait"
    /\ info' = SnapshotOf[platform]
    /\ wire' = MessageOf["register"][platform]
    /\ sent' = Append(sent, "register")
    /\ waitElapsed' = 0
    /\ ev' = Event("sent", "register", NoText, "", 0)
    /\ UNCHANGED <<reconnect_delay, heartbeat_count, connOpen, inbox, platform,
                   misconfigured, regOutcome, sinceHb, sleptBefore, failRun,
                   sleepsSinceReset>>

\* websocket.send of line 384 raises.
RegisterSendFail ==
    /\ pc = "register"
    /\ RaiseOuter("register", NoText, "ConnectionClosed")

\* Lines 400-404: the registration wait is over without an exception.
RegistrationDone(kind, text, exc) ==
    /\ pc' = "hb_send"
    /\ reconnect_delay' = delay_after_registration(reconnect_delay)
    /\ heartbeat_count' = 0
    /\ waitElapsed' = 0
    /\ sinceHb' = 0
    /\ ev' = Event(kind, "reg_wait", text, exc, reconnect_delay)
    /\ regOutcome' = kind
    /\ failRun' = 0
    /\ sleepsSinceReset' = 0
    /\ UNCHANGED <<connOpen, platform, info, misconfigured, sent, wire, sleptBefore>>

\* An exception raised by lines 393-395, inside the inner try of the
\* registration wait.
RaiseInRegistrationWait(text, exc) ==
    IF registration_wait_catches(exc)
    THEN RegistrationDone("timeout", text, exc)
    ELSE RaiseOuter("reg_wait", text, exc)

\* Time passes in the wait_for(recv) of line 431 while nothing has arrived.
\* (How long the registration wait of line 393 takes is read by nothing, so
\* only its outcome is modelled.)
WaitTick ==
    /\ pc = "hb_wait"
    /\ inbox = << >>
    /\ \E t \in (waitElapsed + 1) .. RECV_TIMEOUT : waitElapsed' = t
    /\ ev' = Event("tick", "hb_wait", NoText, "", 0)
    /\ UNCHANGED <<pc, reconnect_delay, heartbeat_count, connOpen, inbox, platform, info,
                   misconfigured, sent, regOutcome, wire, sinceHb, sleptBefore,
                   failRun, sleepsSinceReset>>

\* Mutant: recv hands over the newest payload waiting, not the oldest.
recv_newest(queue) ==
    [message |-> queue[Len(queue)], rest |-> SubSeq(queue, 1, Len(queue) - 1)]

\* websocket.recv() on a connection with payloads waiting (lines 393 and
\* 431): the oldest one is returned and the others stay queued.
recv(queue) == [message |-> Head(queue), rest |-> Tail(queue)]

\* Lines 393-396: recv returns the oldest payload, which is decoded and
\* looked at.
RegistrationRecv ==
    /\ pc = "reg_wait"
    /\ inbox # << >>
    /\ LET text == recv(inbox).message
           exc == handle_response(text)
       IN  IF exc = ""
           THEN RegistrationDone("recv", text, "") /\ inbox' = recv(inbox).rest
           ELSE RaiseInRegistrationWait(text, exc)

\* Line 393: nothing arrived within the timeout.
RegistrationTimeout ==
    /\ pc = "reg_wait"
    /\ inbox = << >>
    /\ RaiseInRegistrationWait(NoText, "TimeoutError")
    /\ inbox' = << >>

\* Line 393: recv raises because the connection is closed.
RegistrationRecvFail ==
    /\ pc = "reg_wait"
    /\ RaiseInRegistrationWait(NoText, "ConnectionClosed")

\* Lines 407-421: build the snapshot and send a heartbeat.  A connection
\* carries at most MaxHeartbeats of them before its transport fails.
HeartbeatSend ==
    /\ pc = "hb_send"
    /\ heartbeat_count < MaxHeartbeats
    /\ pc' = "hb_wait"
    /\ info' = SnapshotOf[platform]
    /\ wire' = MessageOf["heartbeat"][platform]
    /\ sent' = Append(sent, "heartbeat")
    /\ heartbeat_count' = heartbeat_count + 1
    /\ waitElapsed' = 0
    /\ sinceHb' = 0
    /\ ev' = Event("sent", "hb_send", NoText, "", IF heartbeat_count > 0 THEN sinceHb ELSE 0)
    /\ UNCHANGED <<reconnect_delay, connOpen, inbox, platform, misconfigured,
                   regOutcome, sleptBefore, failRun, sleepsSinceReset>>

\* websocket.send of line 420 raises.
HeartbeatSendFail ==
    /\ pc = "hb_send"
    /\ RaiseInHeartbeat("hb_send", NoText, "ConnectionClosed")

\* The heartbeat wait is over without an exception: on to the sleep of line 438.
HeartbeatWaitDone(kind, text, exc) ==
    /\ pc' = "hb_sleep"
    /\ sinceHb' = waitElapsed
    /\ waitElapsed' = 0
    /\ ev' = Event(kind, "hb_wait", text, exc, 0)
    /\ UNCHANGED <<reconnect_delay, heartbeat_count, connOpen, platform, info, misconfigured,
                   sent, regOutcome, wire, sleptBefore, failRun, sleepsSinceReset>>

\* An exception raised by lines 431-433, inside the inner try of the
\* heartbeat wait.
RaiseInHeartbeatWait(text, exc) ==
    IF heartbeat_wait_catches(exc)
    THEN HeartbeatWaitDone("timeout", text, exc)
    ELSE RaiseInHeartbeat("hb_wait", text, exc)

\* Lines 431-434: recv returns the oldest payload; a heartbeat_ack is
\* passed over, and so is every other dict.
HeartbeatRecv ==
    /\ pc = "hb_wait"
    /\ inbox # << >>
    /\ LET text == recv(inbox).message
           exc == handle_response(text)
       IN  IF exc = ""
           THEN HeartbeatWaitDone("recv", text, "") /\ inbox' = recv(inbox).rest
           ELSE RaiseInHeartbeatWait(text, exc)

\* Line 431: nothing arrived within the timeout.
HeartbeatTimeout ==
    /\ pc = "hb_wait"
    /\ inbox = << >>
    /\ waitElapsed = RECV_TIMEOUT
    /\ RaiseInHeartbeatWait(NoText, "TimeoutError")
    /\ inbox' = << >>

\* Line 431: recv raises because the connection is closed.
HeartbeatRecvFail ==
    /\ pc = "hb_wait"
    /\ RaiseInHeartbeatWait(NoText, "ConnectionClosed")

\* await asyncio.sleep(5), line 438.
HeartbeatSleep ==
    /\ pc = "hb_sleep"
    /\ pc' = "hb_send"
    /\ sinceHb' = sinceHb + HEARTBEAT_SLEEP
    /\ ev' = Event("slept", "hb_sleep", NoText, "", 0)
    /\ UNCHANGED <<reconnect_delay, heartbeat_count, connOpen, inbox, waitElapsed,
                   platform, info, misconfigured, sent, regOutcome, wire, sleptBefore,
                   failRun, sleepsSinceReset>>

\* Lines 447-448: sleep reconnect_delay, raise it, and go round `while True`.
BackoffSleep ==
    /\ pc = "backoff"
    /\ pc' = "connecting"
    /\ sleptBefore' = reconnect_delay
    /\ reconnect_delay' = next_reconnect_delay(reconnect_delay)
    /\ sleepsSinceReset' = Bump(sleepsSinceReset)
    /\ ev' = Event("slept", "backoff", NoText, "", reconnect_delay)
    /\ UNCHANGED <<heartbeat_count, connOpen, inbox, waitElapsed, platform, info,
                   misconfigured, sent, regOutcome, wire, sinceHb, failRun>>

\* The coordinator puts a payload on the open connection.
CoordinatorSend ==
    /\ connOpen
    /\ Len(inbox) < MaxInbox
    /\ \E text \in Payloads : inbox' = Append(inbox, text)
    /\ UNCHANGED <<pc, reconnect_delay, heartbeat_count, connOpen, waitElapsed,
                   platform, info, misconfigured, sent, regOutcome, wire, sinceHb, ev,
                   sleptBefore, failRun, sleepsSinceReset>>

\* Ctrl-C: KeyboardInterrupt is no Exception, so it leaves worker_loop and
\* is caught in main (lines 498-501).
Interrupt ==
    /\ pc # "stopped"
    /\ IF pc \in Streaming
       THEN RaiseInHeartbeat(pc, NoText, "KeyboardInterrupt")
       ELSE RaiseOuter(pc, NoText, "KeyboardInterrupt")

AgentStep ==
    \/ ConnectOk
    \/ ConnectFail
    \/ RegisterSend
    \/ RegisterSendFail
    \/ WaitTick
    \/ RegistrationRecv
    \/ RegistrationTimeout
    \/ RegistrationRecvFail
    \/ HeartbeatSend
    \/ HeartbeatSendFail
    \/ HeartbeatRecv
    \/ HeartbeatTimeout
    \/ HeartbeatRecvFail
    \/ HeartbeatSleep
    \/ BackoffSleep

Next ==
    \/ AgentStep
    \/ CoordinatorSend
    \/ Interrupt

Spec == Init /\ [][Next]_vars

\* asyncio keeps running the one task of worker_loop: a step of the agent
\* that stays possible is eventually taken.
FairSpec == Spec /\ WF_vars(AgentStep)

\* ------------------------------------------------------- the snapshot builder alone
\* main() calls get_resource_info once to show the device (line 457), and
\* worker_loop calls it again before every message (lines 371 and 407).
\* SnapSpec is those calls alone, on every device of ProbeSpace.
SnapInit ==
    /\ pc = "main"
    /\ reconnect_delay = UnitsOf(BASE_RECONNECT_DELAY)
    /\ heartbeat_count = 0
    /\ connOpen = FALSE
    /\ inbox = << >>
    /\ waitElapsed = 0
    /\ platform \in ProbeSpace
    /\ info = NoInfo
    /\ misconfigured = FALSE
    /\ sent = << >>
    /\ regOutcome = ""
    /\ wire = NoMsg
    /\ sinceHb = 0
    /\ ev = Event("start", "", NoText, "", 0)
    /\ sleptBefore = 0
    /\ failRun = 0
    /\ sleepsSinceReset = 0

\* info = get_resource_info(), line 457.
MainSample ==
    /\ pc = "main"
    /\ pc' = "sampled"
    /\ info' = get_resource_info(platform)
    /\ ev' = Event("sampled", "main", NoText, "", 0)
    /\ UNCHANGED <<reconnect_delay, heartbeat_count, connOpen, inbox, waitElapsed,
                   platform, misconfigured, sent, regOutcome, wire, sinceHb,
                   sleptBefore, failRun, sleepsSinceReset>>

\* A later call of get_resource_info on the same device (lines 371, 407):
\* the clock has moved on.
Resample ==
    /\ pc = "sampled"
    /\ platform.clock < MaxClock
    /\ platform' = [platform EXCEPT !.clock = @ + 1]
    /\ info' = get_resource_info(platform')
    /\ ev' = Event("sampled", "sampled", NoText, "", 0)
    /\ UNCHANGED <<pc, reconnect_delay, heartbeat_count, connOpen, inbox, waitElapsed,
                   misconfigured, sent, regOutcome, wire, sinceHb,
                   sleptBefore, failRun, sleepsSinceReset>>

SnapNext ==
    \/ MainSample
    \/ Resample

SnapSpec == SnapInit /\ [][SnapNext]_vars

\* ------------------------------------------------------- the basic worker
\* workers.py: get_resource_info reads MemAvailable from /proc/meminfo and
\* reports a fixed CPU figure.
workers_get_resource_info(p) ==
    [cpu_free |-> 5000,
     ram_free_mb |-> IF Succeeded(p.proc_meminfo)
                        /\ "MemAvailable" \in DOMAIN Val(p.proc_meminfo)
                     THEN Val(p.proc_meminfo)["MemAvailable"] \div 1024
                     ELSE 0]

\* The register and heartbeat messages of workers.worker_loop.
workers_build_msg(type, snapshot) ==
    [type |-> type,
     device_id |-> DEVICE_ID,
     cpu_free |-> snapshot.cpu_free,
     ram_free_mb |-> snapshot.ram_free_mb]

\* workers.worker_loop has no try: whatever connect or send raises leaves
\* the coroutine and asyncio.run (line 55), and the process ends.
workers_raise(at, exc) == Stop(at, exc)

BasicInit ==
    /\ pc = "connecting"
    /\ reconnect_delay = UnitsOf(BASE_RECONNECT_DELAY)
    /\ heartbeat_count = 0
    /\ connOpen = FALSE
    /\ inbox = << >>
    /\ waitElapsed = 0
    /\ platform \in ProbeSpace
    /\ info = NoInfo
    /\ misconfigured = FALSE
    /\ sent = << >>
    /\ regOutcome = ""
    /\ wire = NoMsg
    /\ sinceHb = 0
    /\ ev = Event("start", "", NoText, "", 0)
    /\ sleptBefore = 0
    /\ failRun = 0
    /\ sleepsSinceReset = 0

\* websockets.connect of line 34 succeeds.
BasicConnectOk ==
    /\ pc = "connecting"
    /\ pc' = "register"
    /\ connOpen' = TRUE
    /\ ev' = Event("connected", "connecting", NoText, "", 0)
    /\ UNCHANGED <<reconnect_delay, heartbeat_count, inbox, waitElapsed, platform, info,
                   misconfigured, sent, regOutcome, wire, sinceHb, sleptBefore,
                   failRun, sleepsSinceReset>>

\* websockets.connect of line 34 raises.
BasicConnectFail ==
    /\ pc = "connecting"
    /\ workers_raise("connecting", "OSError")

\* Lines 36-42: build the snapshot and send the register message.
BasicRegisterSend ==
    /\ pc = "register"
    /\ pc' = "hb_send"
    /\ info' = workers_get_resource_info(platform)
    /\ wire' = workers_build_msg("register", info')
    /\ sent' = Append(sent, "register")
    /\ ev' = Event("sent", "register", NoText, "", 0)
    /\ UNCHANGED <<reconnect_delay, heartbeat_count, connOpen, inbox, waitElapsed,
                   platform, misconfigured, regOutcome, sinceHb, sleptBefore,
                   failRun, sleepsSinceReset>>

\* websocket.send of line 37 raises.
BasicRegisterSendFail ==
    /\ pc = "register"
    /\ workers_raise("register", "ConnectionClosed")

\* Lines 46-51: build the snapshot and send a heartbeat.  A connection
\* carries at most MaxHeartbeats of them before its transport fails.
BasicHeartbeatSend ==
    /\ pc = "hb_send"
    /\ heartbeat_count < MaxHeartbeats
    /\ pc' = "hb_sleep"
    /\ info' = workers_get_resource_info(platform)
    /\ wire' = workers_build_msg("heartbeat", info')
    /\ sent' = Append(sent, "heartbeat")
    /\ heartbeat_count' = heartbeat_count + 1
    /\ ev' = Event("sent", "hb_send", NoText, "", 0)
    /\ UNCHANGED <<reconnect_delay, connOpen, inbox, waitElapsed, platform,
                   misconfigured, regOutcome, sinceHb, sleptBefore, failRun,
                   sleepsSinceReset>>

\* websocket.send of line 47 raises.
BasicHeartbeatSendFail ==
    /\ pc = "hb_send"
    /\ workers_raise("hb_send", "ConnectionClosed")

\* await asyncio.sleep(5), line 52.
BasicHeartbeatSleep ==
    /\ pc = "hb_sleep"
    /\ pc' = "hb_send"
    /\ ev' = Event("slept", "hb_sleep", NoText, "", 0)
    /\ UNCHANGED <<reconnect_delay, heartbeat_count, connOpen, inbox, waitElapsed,
                   platform, info, misconfigured, sent, regOutcome, wire, sinceHb,
                   sleptBefore, failRun, sleepsSinceReset>>

BasicNext ==
    \/ BasicConnectOk
    \/ BasicConnectFail
    \/ BasicRegisterSend
    \/ BasicRegisterSendFail
    \/ BasicHeartbeatSend
    \/ BasicHeartbeatSendFail
    \/ BasicHeartbeatSleep

BasicSpec == BasicInit /\ [][BasicNext]_vars

\* ======================================================= properties
TransportFailure == ev.kind = "raise" /\ ev.exc \in TransportErrors
Interrupted == pc = "stopped" /\ ev.exc = "KeyboardInterrupt"
Pow(b, n) == IF n <= 0 THEN 1 ELSE b ^ n

\* min(5 * 1.5^(k-1), 60) seconds, in 1/Scale seconds, for k >= 1.
ExpectedDelay(k) ==
    Min((UnitsOf(BASE_RECONNECT_DELAY) * Pow(3, k - 1)) \div Pow(2, k - 1),
        UnitsOf(max_reconnect_delay))

\* C1: a transport failure while streaming moves the agent to backoff: the
\* connection is closed, and the agent is at the connect call again only
\* after it has slept reconnect_delay seconds.
C1_StreamingFailureBacksOff ==
    /\ (TransportFailure /\ ev.at \in Streaming) => (pc = "backoff" /\ ~connOpen)
    /\ (pc = "connecting" /\ failRun > 0) => sleptBefore >= UnitsOf(BASE_RECONNECT_DELAY)

\* C2: when the agent is at the connect call after the k-th transport
\* failure in a row with no completed registration in between, the sleep
\* it has just made is min(5 * 1.5^(k-1), 60) seconds.
C2_DelayAfterKthFailure ==
    (pc = "connecting" /\ failRun >= 1 /\ failRun < MaxRun)
        => sleptBefore = ExpectedDelay(failRun)

\* The schedule of the backoff sleeps themselves: the n-th sleep since
\* reconnect_delay was last set to 5 lasts min(5 * 1.5^(n-1), 60) seconds.
BackoffSchedule ==
    (pc = "connecting" /\ sleepsSinceReset >= 1 /\ sleepsSinceReset < MaxRun)
        => sleptBefore = ExpectedDelay(sleepsSinceReset)

\* C3 as stated: once the connection is open and the register message is
\* sent on it, reconnect_delay is 5, so a backoff that follows a failure in
\* the registration wait sleeps 5 seconds.
C3_ResetOnceRegisterSent ==
    (pc = "backoff" /\ ev.at = "reg_wait") => reconnect_delay = UnitsOf(BASE_RECONNECT_DELAY)

\* C3 as amended: once the registration wait has ended without an error
\* (a decodable object arrived, or the 5 s ran out) reconnect_delay is 5
\* whatever it was before, it stays 5 while the agent streams, and the
\* first backoff sleep after that registration is 5 seconds.
C3_ResetWhenRegistrationCompletes ==
    /\ pc \in Streaming => reconnect_delay = UnitsOf(BASE_RECONNECT_DELAY)
    /\ (pc \in {"connecting", "backoff"} /\ regOutcome # "" /\ sleepsSinceReset = 0)
          => reconnect_delay = UnitsOf(BASE_RECONNECT_DELAY)
    /\ (pc = "connecting" /\ regOutcome # "" /\ sleepsSinceReset = 1)
          => sleptBefore = UnitsOf(BASE_RECONNECT_DELAY)

\* A registration that completed on a connection opened after two backoffs,
\* when reconnect_delay had grown to 11.25 s.
C3_Witness ==
    /\ pc = "hb_send"
    /\ ev.at = "reg_wait"
    /\ ev.amount = ExpectedDelay(3)
    /\ reconnect_delay = UnitsOf(BASE_RECONNECT_DELAY)

\* C4: a ping received in the wait after a heartbeat is answered by one
\* pong carrying device_id, and the heartbeat loop goes on on the same
\* connection.
C4_PingAnsweredByPong ==
    (ev.at = "hb_wait" /\ ev.text = "{\"type\": \"ping\"}")
        => /\ wire.type = "pong"
           /\ wire.device_id = DEVICE_ID
           /\ sent[Len(sent)] = "pong"
           /\ connOpen
           /\ pc = "hb_sleep"

KnownTypes == {"registration_ack", "heartbeat_ack", "ping"}
UnknownOrMalformed(text) ==
    \/ ~Succeeded(json_loads(text))
    \/ ~IsDict(Val(json_loads(text)))
    \/ Val(json_loads(text)).type \notin KnownTypes

\* C5: an inbound payload of unknown type, or one that is no JSON object,
\* is ignored in both waits: the connection stays open and the agent goes
\* on to the next heartbeat on it.
C5_UnknownOrMalformedIgnored ==
    (ev.at \in Waiting /\ ev.text # NoText /\ UnknownOrMalformed(ev.text))
        => /\ ev.kind = "recv"
           /\ connOpen
           /\ pc = (IF ev.at = "reg_wait" THEN "hb_send" ELSE "hb_sleep")

\* C6: if the transport can never be constructed, the agent eventually
\* stops on that fault.
C6_MisconfigurationStops ==
    misconfigured ~> (pc = "stopped")

\* C7: a failure of connect, send or receive never ends worker_loop: the
\* loop is in backoff or at the connect call right after it, from there it
\* reaches the connect call, and from the connect call it makes the attempt
\* (unless the operator interrupts the process).
C7_FailureLeadsToReconnect ==
    /\ [](TransportFailure => pc \in {"backoff", "connecting"})
    /\ TransportFailure ~> (pc = "connecting" \/ Interrupted)
    /\ (pc = "connecting") ~> (ev.at = "connecting" \/ Interrupted)

\* A receive failure in the heartbeat wait, after which the agent is at the
\* connect call.
C7_Witness ==
    /\ TransportFailure
    /\ ev.at = "hb_wait"
    /\ pc = "connecting"

SnapshotFields == {"cpu_free", "ram_free_mb", "total_ram_mb", "ram_used_percent",
                   "battery", "storage", "network", "timestamp"}

\* C8: the first message on every connection is a register with device_id
\* and every ResourceSnapshot field, and no heartbeat precedes it.
C8_FirstMessageIsFullRegister ==
    /\ Len(sent) > 0 => sent[1] = "register"
    /\ wire.type = "register"
          => (wire.device_id = DEVICE_ID /\ SnapshotFields \subseteq DOMAIN wire)

RegistrationWaitTimedOut == ev.at = "reg_wait" /\ ev.exc = "TimeoutError"

\* C9: when the registration wait times out, the agent is at the heartbeat
\* send on the same open connection with only the register sent, and from
\* there the first heartbeat goes out (unless the send fails or the
\* operator interrupts).
C9_NoAckStillStreams ==
    /\ [](RegistrationWaitTimedOut
            => (pc = "hb_send" /\ connOpen /\ heartbeat_count = 0 /\ sent = <<"register">>))
    /\ RegistrationWaitTimedOut
          ~> \/ (regOutcome = "timeout" /\ sent = <<"register", "heartbeat">> /\ connOpen)
             \/ (TransportFailure /\ ev.at = "hb_send")
             \/ Interrupted

\* The first heartbeat sent on a connection whose registration wait timed out.
C9_Witness ==
    /\ regOutcome = "timeout"
    /\ sent = <<"register", "heartbeat">>
    /\ ev.kind = "sent"
    /\ connOpen

\* C10: the time between two consecutive heartbeat sends on one connection
\* is the 5 s cadence, whether or not an acknowledgment arrived in between.
C10_HeartbeatIntervalFixed ==
    (ev.kind = "sent" /\ ev.at = "hb_send" /\ heartbeat_count >= 2)
        => ev.amount = HEARTBEAT_SLEEP

\* C11: in every snapshot built, ram_used_percent lies between 0 and 100;
\* it is round((total - free) / total * 100, 2) when total_ram_mb > 0 and
\* 0 when total_ram_mb is 0.
C11_RamUsedPercentInRange ==
    info # NoInfo
        => /\ info.ram_used_percent >= 0
           /\ info.ram_used_percent <= 10000
           /\ info.total_ram_mb > 0
                 => info.ram_used_percent
                      = RoundPercent(info.total_ram_mb - info.ram_free_mb, info.total_ram_mb)
           /\ info.total_ram_mb = 0 => info.ram_used_percent = 0

DumpsysGivesLevel(p) ==
    Succeeded(p.dumpsys_battery) /\ Succeeded(Val(p.dumpsys_battery).level)
TermuxGivesRecord(p) ==
    Succeeded(p.termux_battery)
    /\ {"percentage", "status"} \subseteq DOMAIN Val(p.termux_battery)
DiskUsageGivesSizes(p) == Succeeded(p.disk_usage) /\ Val(p.disk_usage).total > 0
DefaultBattery == [percentage |-> 100, status |-> "unknown", error |-> "battery status unavailable"]
DefaultStorage == [total_gb |-> 12800, free_gb |-> 6400, used_percent |-> 5000]

\* C12: every call of the snapshot builder returns, and whichever probes
\* of a collector fail, the collector's value is that of the next strategy
\* that answers, or its default when none does (CPU 50.0, RAM 0, the
\* default battery and storage records, network not connected, 8 cores,
\* 8192 MB, android_version unknown).
C12_FailuresFallBack ==
    LET p == platform IN
    /\ pc = "sampled" => info # NoInfo
    /\ info # NoInfo
         => /\ (~Succeeded(p.cpu_percent) /\ p.proc_stat1 = Phone.proc_stat1
                    /\ p.proc_stat2 = Phone.proc_stat2) => info.cpu_free = 8000
            /\ (~Succeeded(p.cpu_percent)
                    /\ (~Succeeded(p.proc_stat1) \/ ~Succeeded(p.proc_stat2)))
                  => info.cpu_free = 5000
            /\ (~Succeeded(p.proc_meminfo) /\ Succeeded(p.virtual_memory))
                  => info.ram_free_mb = Val(p.virtual_memory)
            /\ (~Succeeded(p.proc_meminfo) /\ ~Succeeded(p.virtual_memory))
                  => info.ram_free_mb = 0
            /\ ~Succeeded(p.proc_meminfo) => info.total_ram_mb = 8192
            /\ (~Succeeded(p.termux_battery) /\ DumpsysGivesLevel(p))
                  => /\ info.battery.source = "dumpsys"
                     /\ info.battery.percentage = Val(Val(p.dumpsys_battery).level)
            /\ (~Succeeded(p.termux_battery) /\ ~Succeeded(p.dumpsys_battery)
                    /\ Succeeded(p.sysfs_battery))
                  => /\ info.battery.source = "sysfs"
                     /\ info.battery.percentage = Val(p.sysfs_battery).capacity
            /\ (~Succeeded(p.termux_battery) /\ ~Succeeded(p.dumpsys_battery)
                    /\ ~Succeeded(p.sysfs_battery))
                  => info.battery = (IF p.charger_online
                                     THEN [percentage |-> 100, status |-> "charging",
                                           source |-> "charging_detect"]
                                     ELSE DefaultBattery)
            /\ (~Succeeded(p.df_data) /\ DiskUsageGivesSizes(p))
                  => /\ info.storage.total_gb = Val(p.disk_usage).total
                     /\ info.storage.free_gb = Val(p.disk_usage).free
            /\ (~Succeeded(p.df_data) /\ ~Succeeded(p.disk_usage))
                  => info.storage = DefaultStorage
            /\ ~p.probe_connects => info.network = [connected |-> FALSE]
            /\ ~Succeeded(p.cpu_count) => info.device.cpu_count = 8
            /\ p.getprop_release = "raises" => info.device.android_version = "unknown"

\* A snapshot of a device whose df call fails while psutil.disk_usage
\* answers: the storage record is the one of psutil.
C12_Witness ==
    /\ info # NoInfo
    /\ ~Succeeded(platform.df_data)
    /\ DiskUsageGivesSizes(platform)
    /\ info.storage.total_gb = Val(platform.disk_usage).total
    /\ info.storage # DefaultStorage

\* No strategy of any metric collector gives a value on device p.
AllStrategiesFail(p) ==
    /\ ~Succeeded(p.cpu_percent)
    /\ ~Succeeded(p.proc_stat1) \/ ~Succeeded(p.proc_stat2)
    /\ ~Succeeded(p.proc_meminfo)
    /\ ~Succeeded(p.virtual_memory)
    /\ ~TermuxGivesRecord(p)
    /\ ~DumpsysGivesLevel(p)
    /\ ~Succeeded(p.sysfs_battery)
    /\ ~p.charger_online
    /\ ~Succeeded(p.df_data)
    /\ ~DiskUsageGivesSizes(p)
    /\ ~p.probe_connects

WithoutTimestamp(snapshot) == [k \in (DOMAIN snapshot) \ {"timestamp"} |-> snapshot[k]]

\* C13: when every strategy of every collector fails, the snapshot has the
\* defaults: CPU free 50.0, RAM free 0, battery 100 percent with status
\* unknown, storage 128 GB total, 64 GB free, 50 percent used, network not
\* connected; and a later call on that device returns the same snapshot
\* but for the timestamp.
C13_AllFailGivesDefaults ==
    /\ []((info # NoInfo /\ AllStrategiesFail(platform))
            => /\ info.cpu_free = 5000
               /\ info.ram_free_mb = 0
               /\ info.battery.percentage = 100
               /\ info.battery.status = "unknown"
               /\ info.storage = [total_gb |-> 12800, free_gb |-> 6400, used_percent |-> 5000]
               /\ info.network = [connected |-> FALSE])
    /\ [][(info # NoInfo /\ AllStrategiesFail(platform))
            => WithoutTimestamp(info') = WithoutTimestamp(info)]_vars

\* The second snapshot of a device on which every strategy fails.
C13_Witness ==
    /\ info # NoInfo
    /\ AllStrategiesFail(platform)
    /\ info.timestamp = 2
    /\ info.cpu_free = 5000
    /\ info.battery.status = "unknown"

\* C14: every snapshot built has cpu free, ram free, ram total, ram used
\* percent, a battery with percentage, status and source, a storage with
\* total_gb, free_gb and used_percent, a network with connected and method,
\* and a timestamp, whichever strategies succeed or fail.
C14_SnapshotFullyPopulated ==
    info # NoInfo
        => /\ {"cpu_free", "ram_free_mb", "total_ram_mb", "ram_used_percent",
                "battery", "storage", "network", "timestamp"} \subseteq DOMAIN info
           /\ {"percentage", "status", "source"} \subseteq DOMAIN info.battery
           /\ {"total_gb", "free_gb", "used_percent"} \subseteq DOMAIN info.storage
           /\ {"connected", "method"} \subseteq DOMAIN info.network

\* /proc/meminfo was read and gave at least one integer field.
MeminfoRead(p) == Succeeded(p.proc_meminfo) /\ DOMAIN Val(p.proc_meminfo) # {}
MeminfoHas(p, key) == MeminfoRead(p) /\ key \in DOMAIN Val(p.proc_meminfo)
\* MemFree + Cached + Buffers in MB, a field that is absent counting 0.
MeminfoSum(p) ==
    LET f == Val(p.proc_meminfo)
        kB(key) == IF key \in DOMAIN f THEN f[key] ELSE 0
    IN  (kB("MemFree") + kB("Cached") + kB("Buffers")) \div 1024

\* C15 as stated: the RAM-free value is that of the first strategy that
\* succeeds in the order virtual-memory API, MemAvailable, MemFree + Cached
\* + Buffers, and 0 only if all three fail; so it is the value of the
\* virtual-memory API whenever that API succeeds.
C15_VirtualMemoryApiFirst ==
    LET p == platform IN
    info # NoInfo
        => /\ Succeeded(p.virtual_memory) => info.ram_free_mb = Val(p.virtual_memory)
           /\ (~Succeeded(p.virtual_memory) /\ MeminfoHas(p, "MemAvailable"))
                 => info.ram_free_mb = Val(p.proc_meminfo)["MemAvailable"] \div 1024
           /\ (~Succeeded(p.virtual_memory) /\ MeminfoRead(p)
                   /\ ~MeminfoHas(p, "MemAvailable"))
                 => info.ram_free_mb = MeminfoSum(p)
           /\ (~Succeeded(p.virtual_memory) /\ ~MeminfoRead(p)) => info.ram_free_mb = 0

\* C15 as amended: the RAM-free value is MemAvailable of /proc/meminfo when
\* the file gives it, else MemFree + Cached + Buffers when the file gives
\* any integer field, else the value of the virtual-memory API, and 0 only
\* if the file gives nothing and the API fails.
C15_MeminfoFirst ==
    LET p == platform IN
    info # NoInfo
        => /\ MeminfoHas(p, "MemAvailable")
                 => info.ram_free_mb = Val(p.proc_meminfo)["MemAvailable"] \div 1024
           /\ (MeminfoRead(p) /\ ~MeminfoHas(p, "MemAvailable"))
                 => info.ram_free_mb = MeminfoSum(p)
           /\ (~MeminfoRead(p) /\ Succeeded(p.virtual_memory))
                 => info.ram_free_mb = Val(p.virtual_memory)
           /\ (~MeminfoRead(p) /\ ~Succeeded(p.virtual_memory)) => info.ram_free_mb = 0

\* A snapshot of a device on which both /proc/meminfo and the
\* virtual-memory API answer, with different values: MemAvailable is used.
C15_Witness ==
    /\ info # NoInfo
    /\ MeminfoHas(platform, "MemAvailable")
    /\ Succeeded(platform.virtual_memory)
    /\ info.ram_free_mb = 1024
    /\ Val(platform.virtual_memory) = 1000

BatteryStatuses == {"charging", "discharging", "full", "unknown"}

\* C16: the battery record of every snapshot, whichever method produced
\* it, has a status that is one of charging, discharging, full, unknown.
C16_BatteryStatusInEnum ==
    info # NoInfo => info.battery.status \in BatteryStatuses

\* C17: in the basic worker a transport failure of connect or of the send
\* of a register or heartbeat does not end the agent: the agent is in
\* backoff, or at the connect call for a new attempt.
C17_BasicWorkerSurvivesTransportFailure ==
    (TransportFailure /\ ev.at \in {"connecting", "register", "hb_send"})
        => pc \in {"backoff", "connecting"}

HeartbeatWaitTimedOut == ev.at = "hb_wait" /\ ev.exc = "TimeoutError"

\* C18: when the wait after a heartbeat times out, the agent is at the
\* sleep of the heartbeat loop with the connection open; the sleep ends at
\* the heartbeat send on that connection; and from the timeout the next
\* heartbeat goes out on it (unless the send fails or the operator
\* interrupts).
C18_TimeoutKeepsStreaming ==
    /\ [](HeartbeatWaitTimedOut => (pc = "hb_sleep" /\ connOpen))
    /\ [][pc = "hb_sleep" => ((pc' \in {"hb_sleep", "hb_send"} /\ connOpen'
                                  /\ sent' = sent) \/ Interrupted')]_vars
    /\ HeartbeatWaitTimedOut
          ~> \/ (ev.kind = "sent" /\ ev.at = "hb_send" /\ heartbeat_count >= 2 /\ connOpen)
             \/ (TransportFailure /\ ev.at = "hb_send")
             \/ Interrupted

\* The wait after the first heartbeat of a connection has timed out.
C18_Witness ==
    /\ HeartbeatWaitTimedOut
    /\ pc = "hb_sleep"
    /\ connOpen
    /\ heartbeat_count = 1
    /\ sinceHb = RECV_TIMEOUT

\* An Exception raised on an open connection before the registration wait
\* is over: by the register send, or by the receive or the decoding of the
\* registration wait.
RegistrationFailed ==
    ev.kind = "raise" /\ ev.at \in {"register", "reg_wait"} /\ IsException(ev.exc)

\* C19: when an error other than the timeout ends a connection before its
\* registration is over, the agent is in backoff and no heartbeat was sent
\* on that connection; the failing step leaves reconnect_delay as it was;
\* and the backoff sleeps that reconnect_delay and then sets it to
\* min(reconnect_delay * 1.5, 60) before the next connect call.
C19_FailedRegistrationBacksOff ==
    /\ [](RegistrationFailed
            => /\ pc = "backoff"
               /\ ~connOpen
               /\ \A i \in 1 .. Len(sent) : sent[i] # "heartbeat")
    /\ [][(pc \in {"register", "reg_wait"} /\ pc' = "backoff")
            => reconnect_delay' = reconnect_delay]_vars
    /\ [][(RegistrationFailed /\ pc' # pc)
            => \/ Interrupted'
               \/ /\ pc' = "connecting"
                  /\ sleptBefore' = reconnect_delay
                  /\ reconnect_delay' = Min((reconnect_delay * 3) \div 2,
                                            UnitsOf(max_reconnect_delay))]_vars

\* A registration wait that received a text that is no JSON, on a
\* connection opened after two backoffs: reconnect_delay is still 11.25 s.
C19_Witness ==
    /\ RegistrationFailed
    /\ ev.exc = "JSONDecodeError"
    /\ pc = "backoff"
    /\ sent = <<"register">>
    /\ reconnect_delay = ExpectedDelay(3)

\* C20: in every state of worker_loop reconnect_delay is at least 5 s and
\* at most 60 s.
C20_DelayWithinBounds ==
    /\ reconnect_delay >= UnitsOf(BASE_RECONNECT_DELAY)
    /\ reconnect_delay <= UnitsOf(max_reconnect_delay)

\* The agent at the connect call after enough failures in a row for the
\* delay to have reached the cap.
C20_Witness ==
    /\ pc = "connecting"
    /\ reconnect_delay = UnitsOf(max_reconnect_delay)
    /\ sleptBefore = ExpectedDelay(7)

\* The step ends a wait by taking a payload from the connection.
Consumes == pc \in Waiting /\ pc' # pc /\ ev'.text # NoText

\* C21: on one connection the payload a wait takes is the oldest one
\* waiting and the others stay queued in their order; a payload leaves the
\* queue of an open connection only by ending a wait, one at a time; every
\* wait follows a send of its own, so at most one payload is taken in the
\* registration wait and at most one between two heartbeat sends; and a
\* registration_ack taken after the registration wait timed out is taken
\* by the wait of a heartbeat, which goes on to the sleep as for any ack.
C21_OnePayloadPerWaitInOrder ==
    /\ [][Consumes => (inbox # << >> /\ ev'.text = Head(inbox)
                         /\ (connOpen' => inbox' = Tail(inbox)))]_vars
    /\ [][(connOpen' /\ connOpen /\ Len(inbox') < Len(inbox))
            => (Consumes /\ inbox' = Tail(inbox))]_vars
    /\ [][(pc' \in Waiting /\ pc' # pc)
            => (pc \notin Waiting /\ Len(sent') = Len(sent) + 1)]_vars
    /\ []((regOutcome = "timeout" /\ ev.text = "{\"type\": \"registration_ack\"}")
            => (ev.at = "hb_wait" /\ ev.kind = "recv" /\ pc = "hb_sleep" /\ connOpen))

\* A registration_ack that arrived after the registration wait timed out
\* and behind another payload: the wait of the second heartbeat took it.
C21_Witness ==
    /\ regOutcome = "timeout"
    /\ ev.at = "hb_wait"
    /\ ev.kind = "recv"
    /\ ev.text = "{\"type\": \"registration_ack\"}"
    /\ heartbeat_count = 2
    /\ pc = "hb_sleep"

====
